---- MODULE Spec2Model ----
(***************************************************************************)
(* The batch executor of the loader package (src/unnamed/part_000, lines   *)
(* 91-412): execTableBatchRetry / execTableBatch / splitExecDML with       *)
(* bulkDelete and bulkReplace, and singleExecRetry / singleExec.           *)
(*                                                                         *)
(* One table is modelled.  A DML is a record [Tp, key, val]; the value of  *)
(* the i-th change of an input is i, so a value identifies the change that *)
(* wrote it.  The table is a function from keys to the value of the row,   *)
(* NoRow when the row does not exist.                                      *)
(***************************************************************************)
EXTENDS Integers, Sequences, FiniteSets, TLC

\* ------------------------------------------------------------------ bounds
MaxLen == 2         \* longest input sequence; keys are 1..MaxLen
MaxRetry == 2       \* largest retryNum

\* --------------------------------------------------------------- constants
InsertDMLType == "Insert"
UpdateDMLType == "Update"
DeleteDMLType == "Delete"
DMLTypes == {InsertDMLType, UpdateDMLType, DeleteDMLType}

NoKey == 0          \* a change record from which no usable key can be derived
NoRow == 0          \* the row of a key that is not in the table

Keys == 1 .. MaxLen
OldVal == MaxLen + 2                    \* value of the rows present at the start
InitTable == [k \in Keys |-> IF k % 2 = 1 THEN OldVal ELSE NoRow]

Min(a, b) == IF a < b THEN a ELSE b

\* errors: nil, or what failed (the merge, or a call of the database), the task
\* it failed in and the attempt (call of the unit of work) it failed in
Nil == [op |-> "nil", task |-> 0, att |-> 0]
Err(o, t, a) == [op |-> o, task |-> t, att |-> a]

\* errors.Trace(err): annotates the error, nil stays nil
Trace(e) == e

\* --------------------------------------------------------------- the input
RECURSIVE SeqsUpTo(_, _)
SeqsUpTo(S, n) ==
  IF n = 0 THEN {<<>>}
  ELSE LET shorter == SeqsUpTo(S, n - 1)
       IN  shorter \cup {Append(s, x) : s \in {q \in shorter : Len(q) = n - 1}, x \in S}

\* the i-th change carries the value i
Stamp(s) == [j \in 1 .. Len(s) |-> [Tp |-> s[j].Tp, key |-> s[j].key, val |-> j]]

Changes(tps, keys, n) == {Stamp(s) : s \in SeqsUpTo([Tp : tps, key : keys], n)}

\* --------------------------------------------------- SQL of a change record
\* DML.sql(): the natural statement of the record's kind
sql(d) ==
  [op |-> CASE d.Tp = InsertDMLType -> "INSERT"
            [] d.Tp = UpdateDMLType -> "UPDATE"
            [] OTHER -> "DELETE",
   key |-> d.key, val |-> d.val]

\* DML.deleteSQL(): DELETE FROM t WHERE key = old key
deleteSQL(d) == [op |-> "DELETE", key |-> d.key, val |-> d.val]

\* DML.replaceSQL(): REPLACE INTO t VALUES (all columns)
replaceSQL(d) == [op |-> "REPLACE", key |-> d.key, val |-> d.val]

\* the effect of one statement on the rows of the table
ApplyStmtReplaceDrops(rows, s) ==
  CASE s.op = "DELETE"  -> [rows EXCEPT ![s.key] = NoRow]
    [] s.op = "REPLACE" -> IF rows[s.key] = NoRow THEN [rows EXCEPT ![s.key] = s.val]
                           ELSE [rows EXCEPT ![s.key] = NoRow]
    [] s.op = "INSERT"  -> [rows EXCEPT ![s.key] = s.val]
    [] OTHER            -> IF rows[s.key] = NoRow THEN rows
                           ELSE [rows EXCEPT ![s.key] = s.val]
ApplyStmt(rows, s) ==
  CASE s.op = "DELETE"  -> [rows EXCEPT ![s.key] = NoRow]
    [] s.op = "REPLACE" -> [rows EXCEPT ![s.key] = s.val]
    [] s.op = "INSERT"  -> [rows EXCEPT ![s.key] = s.val]
    [] OTHER            -> IF rows[s.key] = NoRow THEN rows
                           ELSE [rows EXCEPT ![s.key] = s.val]

RECURSIVE ApplyAll(_, _)
ApplyAll(rows, ss) ==
  IF Len(ss) = 0 THEN rows ELSE ApplyAll(ApplyStmt(rows, Head(ss)), Tail(ss))

\* a plain INSERT of a row that exists is a duplicate entry: it cannot succeed
CanSucceed(rows, s) == ~(s.op = "INSERT" /\ rows[s.key] # NoRow)

\* ------------------------------------------------------------------- merge
NoDML == [Tp |-> "none", key |-> NoKey, val |-> 0]

\* the effective record of a key after one more change of that key
mergeFirstWins(cur, d) == IF cur = NoDML THEN d ELSE cur
mergeByKey(cur, d) ==
  IF d.Tp = DeleteDMLType THEN d
  ELSE IF cur = NoDML THEN d
  ELSE IF cur.Tp = DeleteDMLType THEN [d EXCEPT !.Tp = InsertDMLType]
  ELSE [d EXCEPT !.Tp = UpdateDMLType]

RECURSIVE mergeFrom(_, _, _)
mergeFrom(ds, n, res) ==
  IF n > Len(ds) THEN res
  ELSE mergeFrom(ds, n + 1,
                 [res EXCEPT ![ds[n].key] = mergeByKey(res[ds[n].key], ds[n])])

\* mergeByPrimaryKey(dmls): (types, err)
mergeNoCollapse(ds) ==
  IF \E n \in 1 .. Len(ds) : ds[n].key = NoKey
  THEN [err |-> Err("merge", 0, 0), types |-> [tp \in DMLTypes |-> <<>>]]
  ELSE [err |-> Nil,
        types |-> [tp \in DMLTypes |-> SelectSeq(ds, LAMBDA d : d.Tp = tp)]]
mergeByPrimaryKey(ds) ==
  IF \E n \in 1 .. Len(ds) : ds[n].key = NoKey
  THEN [err |-> Err("merge", 0, 0), types |-> [tp \in DMLTypes |-> <<>>]]
  ELSE LET res == mergeFrom(ds, 1, [k \in Keys |-> NoDML])
           all == [k \in Keys |-> res[k]]
       IN  [err |-> Nil,
            types |-> [tp \in DMLTypes |-> SelectSeq(all, LAMBDA d : d.Tp = tp)]]

\* splitDMLs(dmls, size): consecutive groups of at most size records
splitDMLs(ds, size) ==
  [j \in 1 .. ((Len(ds) + size - 1) \div size) |->
     SubSeq(ds, (j - 1) * size + 1, Min(j * size, Len(ds)))]

\* ------------------------------------------------------------------- state
VARIABLES
  entry,      \* the function the caller invoked
  dmls,       \* its []*DML argument
  safeMode,   \* its safeMode argument
  retryNum,   \* its retryNum argument
  batchSize,  \* executor.batchSize
  pc,         \* position of the calling goroutine
  i,          \* the attempt counter of the retry loop
  g,          \* singleExecRetry: index of the group being applied
  err,        \* the err variable of the retry loop
  types,      \* execTableBatch: the merge result
  phase,      \* execTableBatch: the bucket being applied
  tasks,      \* the calls of bulkDelete / bulkReplace / singleExec in progress
  errSlot,    \* the error kept by the errgroup of splitExecDML
  db,         \* the rows of the table in the database
  ret,        \* the value returned to the caller (when pc = "done")
  hist,       \* per call of the unit of work by the retry loop: did it succeed
  attempts,   \* calls of the unit of work made by the retry loop
  sleeps,     \* time.Sleep(backoff) calls made by the retry loop
  begun,      \* executor.begin() has been called
  firstFail,  \* the task of the current errgroup that returned an error first
  partial,    \* an attempt of execTableBatch failed after a sub-batch of it committed
  rpc,        \* Restore.Start: position
  nfiles,     \* Restore.Start: len(names)
  fidx,       \* Restore.Start: the file of names being replayed
  pidx,       \* Restore.Start: payloads read from that file
  rlog,       \* Restore.Start: what happened to each payload, in order
  rret        \* Restore.Start: the value returned (when rpc = "done")

vars == <<entry, dmls, safeMode, retryNum, batchSize, pc, i, g, err, types, phase,
          tasks, errSlot, db, ret, hist, attempts, sleeps, begun, firstFail,
          partial, rpc, nfiles, fidx, pidx, rlog, rret>>

restore == <<rpc, nfiles, fidx, pidx, rlog, rret>>

\* Restore.Start has not been called
RestoreIdle ==
  /\ rpc = "idle"
  /\ nfiles = 0
  /\ fidx = 0
  /\ pidx = 0
  /\ rlog = <<>>
  /\ rret = "nil"

params == <<entry, dmls, safeMode, retryNum, batchSize>>

RetryEntries == {"execTableBatchRetry", "singleExecRetry"}
SplitEntries == {"splitExecDML_bulkDelete", "splitExecDML_bulkReplace"}
DirectEntries == {"bulkDelete", "bulkReplace", "singleExec"}
Entries == RetryEntries \cup SplitEntries \cup DirectEntries

\* the arguments a caller can pass to each entry
InputsOf(e) ==
  CASE e = "execTableBatchRetry" ->
         Changes(DMLTypes, Keys \cup {NoKey}, MaxLen)
    [] e \in {"bulkDelete", "splitExecDML_bulkDelete"} ->
         Changes({DeleteDMLType}, Keys, MaxLen)
    [] e \in {"bulkReplace", "splitExecDML_bulkReplace"} ->
         Changes({InsertDMLType, UpdateDMLType}, Keys, MaxLen)
    [] OTHER -> Changes(DMLTypes, Keys, MaxLen)

StartPc(e) ==
  CASE e = "execTableBatchRetry" -> "retry"
    [] e = "singleExecRetry" -> "sretry"
    [] e \in SplitEntries -> "split"
    [] OTHER -> "direct"

NoTypes == [tp \in DMLTypes |-> <<>>]

Init ==
  /\ entry \in Entries
  /\ dmls \in InputsOf(entry)
  /\ safeMode \in (IF entry \in {"singleExecRetry", "singleExec"} THEN BOOLEAN ELSE {FALSE})
  /\ retryNum \in (IF entry \in RetryEntries THEN 0 .. MaxRetry ELSE {1})
  /\ batchSize \in (IF entry \in RetryEntries \cup SplitEntries THEN 1 .. MaxLen ELSE {1})
  /\ pc = StartPc(entry)
  /\ i = 0
  /\ g = 1
  /\ err = Nil
  /\ types = NoTypes
  /\ phase = (IF entry = "splitExecDML_bulkReplace" THEN InsertDMLType ELSE DeleteDMLType)
  /\ tasks = <<>>
  /\ errSlot = Nil
  /\ db = InitTable
  /\ ret = Nil
  /\ hist = <<>>
  /\ attempts = 0
  /\ sleeps = 0
  /\ begun = FALSE
  /\ firstFail = 0
  /\ partial = FALSE
  /\ RestoreIdle

\* ------------------------------------------------------------------- tasks
\* the statements singleExec issues for one record (lines 371-407)
singleStmtsNatural(d, safe) == <<sql(d)>>
singleStmtsSwapped(d, safe) ==
  IF safe /\ d.Tp = UpdateDMLType THEN <<replaceSQL(d), deleteSQL(d)>>
  ELSE IF safe /\ d.Tp = InsertDMLType THEN <<replaceSQL(d)>>
  ELSE <<sql(d)>>
singleStmts(d, safe) ==
  IF safe /\ d.Tp = UpdateDMLType THEN <<deleteSQL(d), replaceSQL(d)>>
  ELSE IF safe /\ d.Tp = InsertDMLType THEN <<replaceSQL(d)>>
  ELSE <<sql(d)>>

RECURSIVE singlePlan(_, _)
singlePlan(ds, safe) ==
  IF Len(ds) = 0 THEN <<>>
  ELSE singleStmts(Head(ds), safe) \o singlePlan(Tail(ds), safe)

\* the row statements a call executes, in order
Plan(fn, split, safe) ==
  CASE fn = "bulkDelete"  -> [j \in 1 .. Len(split) |-> sql(split[j])]
    [] fn = "bulkReplace" -> [j \in 1 .. Len(split) |-> replaceSQL(split[j])]
    [] OTHER              -> singlePlan(split, safe)

NewTask(fn, bucket, split, att) ==
  [fn |-> fn, bucket |-> bucket, split |-> split, att |-> att,
   pc |-> "begin", tx |-> "none", n |-> 0, err |-> Nil, rb |-> "none"]

PlanOf(t) == Plan(tasks[t].fn, tasks[t].split, safeMode)

\* the rows the transaction of task t sees
View(t) == ApplyAll(db, SubSeq(PlanOf(t), 1, tasks[t].n))

\* bulkReplace returns at once for no records (lines 235-237)
ReturnsEarly(fn, split) == fn = "bulkReplace" /\ Len(split) = 0

\* a failed exec is followed by tx.Rollback() (lines 223, 270, 377, 386, 395, 404)
TxLeftOpen == "open"
TxCommittedOnError == "committed"
TxAfterExecFail == "rolledback"

\* database/sql: a Tx is finished by Commit whether or not the commit succeeded
TxAfterCommitFail == "aborted"

\* errgroup: the first non-nil error returned by a task is the one Wait returns
errgKeepLast(slot, e) == e
errgKeep(slot, e) == IF slot = Nil THEN e ELSE slot

\* is task t a goroutine of the errgroup the caller is waiting on
InGroup(t) ==
  /\ tasks[t].bucket \in DMLTypes
  /\ tasks[t].bucket = phase
  /\ tasks[t].att = attempts

\* tx.Rollback() may report an error itself; its result is discarded and the
\* error of the exec is returned (lines 223-224, 270-271, 377-378)
RollbackOutcomes == {"ok", "err"}
ExecFailReturnsRollback(e, rb) == IF rb = "err" THEN e ELSE Nil
ExecFailReturns(e, rb) == e

\* task t returns e, its transaction left as txs after n2 statements and a
\* rollback that went as rb; the database applies the statements of a
\* transaction when it commits
Return(t, e, txs, n2, rb) ==
  /\ tasks' = [tasks EXCEPT ![t].pc = "done", ![t].err = Trace(e),
                            ![t].tx = txs, ![t].n = n2, ![t].rb = rb]
  /\ db' = IF txs = "committed" THEN ApplyAll(db, SubSeq(PlanOf(t), 1, n2)) ELSE db
  /\ IF InGroup(t) /\ e # Nil
     THEN /\ errSlot' = errgKeep(errSlot, Trace(e))
          /\ firstFail' = IF firstFail = 0 THEN t ELSE firstFail
     ELSE UNCHANGED <<errSlot, firstFail>>

Finish(t, e, txs, n2) == Return(t, e, txs, n2, tasks[t].rb)

caller == <<pc, i, g, err, types, phase, ret, hist, attempts, sleeps, partial>>

\* tx, err := e.begin()
TaskBegin(t) ==
  /\ tasks[t].pc = "begin"
  /\ IF ReturnsEarly(tasks[t].fn, tasks[t].split)
     THEN /\ Finish(t, Nil, "none", 0)
          /\ UNCHANGED begun
     ELSE /\ begun' = TRUE
          /\ \/ /\ tasks' = [tasks EXCEPT
                     ![t].tx = "open",
                     ![t].pc = IF tasks[t].fn = "singleExec" /\ Len(PlanOf(t)) = 0
                               THEN "commit" ELSE "exec"]
                /\ UNCHANGED <<errSlot, firstFail, db>>
             \/ Finish(t, Err("sql", t, tasks[t].att), "none", 0)
  /\ UNCHANGED <<params, restore, caller>>

\* one tx.exec(...): the whole statement of a bulk call, the next statement
\* of singleExec
TaskExec(t) ==
  /\ tasks[t].pc = "exec"
  /\ LET plan == PlanOf(t)
         bulk == tasks[t].fn # "singleExec"
         upto == IF bulk THEN Len(plan) ELSE tasks[t].n + 1
         stmts == SubSeq(plan, tasks[t].n + 1, upto)
         ok == \A j \in 1 .. Len(stmts) :
                 CanSucceed(ApplyAll(View(t), SubSeq(stmts, 1, j - 1)), stmts[j])
     IN  \/ /\ ok
            /\ tasks' = [tasks EXCEPT
                 ![t].n = upto,
                 ![t].pc = IF bulk \/ upto = Len(plan) THEN "commit" ELSE "exec"]
            /\ UNCHANGED <<errSlot, firstFail, db>>
         \/ \E rb \in RollbackOutcomes :
              Return(t, ExecFailReturns(Err("sql", t, tasks[t].att), rb),
                     TxAfterExecFail, tasks[t].n, rb)
  /\ UNCHANGED <<params, restore, caller, begun>>

\* err = tx.commit()
TaskCommit(t) ==
  /\ tasks[t].pc = "commit"
  /\ \/ Finish(t, Nil, "committed", tasks[t].n)
     \/ Finish(t, Err("sql", t, tasks[t].att), TxAfterCommitFail, tasks[t].n)
  /\ UNCHANGED <<params, restore, caller, begun>>

\* ------------------------------------------------------ execTableBatchRetry
\* if i > 0 { time.Sleep(backoff) }
SleepsAlways(n) == TRUE
NeedSleep(n) == n > 0

\* for i := 0; i < retryNum; i++
LoopRuns(n) == n < retryNum

\* err = e.execTableBatch(dmls) / err = e.singleExec(dmls, safeMode)
KeepsFirstErr(old, new) == IF old = Nil THEN new ELSE old
LoopErr(old, new) == new

\* the unit of work returned e to the retry loop (lines 156-159, 351-354)
StopsOn(e) == e = Nil

\* the goroutines of the errgroup Wait is waiting for
Group == {t \in 1 .. Len(tasks) : InGroup(t)}

\* errg.Wait(): every goroutine started with errg.Go has returned
WaitSkipped == TRUE
WaitReturnsOnError == errSlot # Nil \/ \A t \in Group : tasks[t].pc = "done"
WaitReturns == \A t \in Group : tasks[t].pc = "done"

\* the function execTableBatch passes to splitExecDML for a bucket
ExecFn(tp) == IF tp = DeleteDMLType THEN "bulkDelete" ELSE "bulkReplace"

\* allDeletes, ok := types[DeleteDMLType]
HasBucket(ty, tp) == Len(ty[tp]) > 0

\* execTableBatch applies the buckets in this order (lines 299, 306, 313)
BucketOrder == <<DeleteDMLType, InsertDMLType, UpdateDMLType>>
PhaseIndex(tp) == CHOOSE n \in 1 .. Len(BucketOrder) : BucketOrder[n] = tp

\* a failed splitExecDML makes execTableBatch return (lines 301-303, 308-310)
NeverAborts(e) == FALSE
AbortsOn(e) == e # Nil

\* a sub-batch of the attempt that is ending has committed
CommittedSome ==
  \E t \in 1 .. Len(tasks) : tasks[t].att = attempts /\ tasks[t].tx = "committed"

\* execTableBatch returns e to execTableBatchRetry
AttemptEnds(e) ==
  /\ err' = LoopErr(err, e)
  /\ hist' = Append(hist, e = Nil)
  /\ partial' = (partial \/ (e # Nil /\ CommittedSome))
  /\ IF StopsOn(e)
     THEN /\ ret' = Nil
          /\ pc' = "done"
          /\ i' = i
     ELSE /\ i' = i + 1
          /\ pc' = "retry"
          /\ ret' = ret

RetryLoop ==
  /\ entry = "execTableBatchRetry"
  /\ pc = "retry"
  /\ IF LoopRuns(i)
     THEN /\ sleeps' = IF NeedSleep(i) THEN sleeps + 1 ELSE sleeps
          /\ pc' = "call"
          /\ ret' = ret
     ELSE /\ ret' = Trace(err)
          /\ pc' = "done"
          /\ sleeps' = sleeps
  /\ UNCHANGED <<params, restore, partial, i, g, err, types, phase, tasks, errSlot, db, hist,
                 attempts, begun, firstFail>>

\* execTableBatch up to its first splitExecDML (lines 287-297)
ExecTableBatch ==
  /\ entry = "execTableBatchRetry"
  /\ pc = "call"
  /\ attempts' = attempts + 1
  /\ tasks' = SelectSeq(tasks, LAMBDA x : x.pc # "done")
  /\ LET m == mergeByPrimaryKey(dmls)
     IN  IF Len(dmls) = 0
         THEN AttemptEnds(Nil) /\ UNCHANGED <<types, phase>>
         ELSE IF m.err # Nil
         THEN /\ AttemptEnds(Trace([m.err EXCEPT !.att = attempts + 1]))
              /\ UNCHANGED <<types, phase>>
         ELSE /\ types' = m.types
              /\ phase' = BucketOrder[1]
              /\ pc' = "split"
              /\ UNCHANGED <<i, err, ret, hist, partial>>
  /\ UNCHANGED <<params, restore, g, errSlot, db, sleeps, begun, firstFail>>

\* the bucket splitExecDML is called with
CurBucket == IF entry \in SplitEntries THEN dmls ELSE types[phase]

\* execTableBatch after the bucket of the current phase: the next bucket, or return nil
AfterBucket ==
  IF PhaseIndex(phase) < Len(BucketOrder)
  THEN /\ phase' = BucketOrder[PhaseIndex(phase) + 1]
       /\ pc' = "split"
       /\ UNCHANGED <<i, err, ret, hist, partial>>
  ELSE /\ AttemptEnds(Nil)
       /\ UNCHANGED phase

\* split := split (line 328): each goroutine is given the split of its iteration
CapturedLast(splits, j) == splits[Len(splits)]
Captured(splits, j) == splits[j]

\* splitExecDML: one errg.Go per split (lines 325-336)
SplitExecDML ==
  /\ pc = "split"
  /\ IF entry \in SplitEntries \/ HasBucket(types, phase)
     THEN LET splits == splitDMLs(CurBucket, batchSize)
          IN  /\ tasks' = tasks \o [j \in 1 .. Len(splits) |->
                                      NewTask(ExecFn(phase), phase, Captured(splits, j), attempts)]
              /\ pc' = "wait"
              /\ errSlot' = Nil
              /\ firstFail' = 0
              /\ UNCHANGED <<i, err, ret, hist, phase, partial>>
     ELSE /\ AfterBucket
          /\ UNCHANGED <<tasks, errSlot, firstFail>>
  /\ UNCHANGED <<params, restore, g, types, db, attempts, sleeps, begun>>

\* return errors.Trace(errg.Wait()) and what the caller does with it
Wait ==
  /\ pc = "wait"
  /\ WaitReturns
  /\ LET e == Trace(errSlot)
     IN  IF entry \in SplitEntries
         THEN /\ ret' = e
              /\ pc' = "done"
              /\ UNCHANGED <<i, err, hist, phase, partial>>
         ELSE IF AbortsOn(e)
         THEN AttemptEnds(Trace(e)) /\ UNCHANGED phase
         ELSE AfterBucket
  /\ UNCHANGED <<params, restore, g, types, tasks, errSlot, db, attempts, sleeps, begun,
                 firstFail>>

\* ---------------------------------------------------------- singleExecRetry
Groups == splitDMLs(dmls, batchSize)

\* the loops of singleExecRetry (lines 344-349, 361)
SingleRetryLoop ==
  /\ entry = "singleExecRetry"
  /\ pc = "sretry"
  /\ IF g > Len(Groups)
     THEN /\ ret' = Nil
          /\ pc' = "done"
          /\ sleeps' = sleeps
     ELSE IF LoopRuns(i)
     THEN /\ sleeps' = IF NeedSleep(i) THEN sleeps + 1 ELSE sleeps
          /\ pc' = "scall"
          /\ ret' = ret
     ELSE /\ pc' = "snext"
          /\ ret' = ret
          /\ sleeps' = sleeps
  /\ UNCHANGED <<params, restore, partial, i, g, err, types, phase, tasks, errSlot, db, hist,
                 attempts, begun, firstFail>>

\* err = e.singleExec(dmls, safeMode)
SingleExecCall ==
  /\ entry = "singleExecRetry"
  /\ pc = "scall"
  /\ attempts' = attempts + 1
  /\ tasks' = <<NewTask("singleExec", "single", Groups[g], attempts + 1)>>
  /\ pc' = "swait"
  /\ UNCHANGED <<params, restore, partial, i, g, err, types, phase, errSlot, db, ret,
                 hist, sleeps, begun, firstFail>>

\* if err == nil { break } (lines 351-355)
SingleExecReturn ==
  /\ entry = "singleExecRetry"
  /\ pc = "swait"
  /\ tasks[1].pc = "done"
  /\ err' = LoopErr(err, tasks[1].err)
  /\ hist' = Append(hist, tasks[1].err = Nil)
  /\ IF StopsOn(tasks[1].err)
     THEN pc' = "snext" /\ i' = i
     ELSE pc' = "sretry" /\ i' = i + 1
  /\ UNCHANGED <<params, restore, partial, g, types, phase, tasks, errSlot, db, ret,
                 attempts, sleeps, begun, firstFail>>

\* var i int; for i = 0; ... (lines 345-346): every group starts a new count
CountCarriedOver(n) == n
FirstCount(n) == 0

\* after the inner loop (lines 356-358): return the error, or go to the next group
SingleNext ==
  /\ entry = "singleExecRetry"
  /\ pc = "snext"
  /\ IF err # Nil
     THEN /\ ret' = Trace(err)
          /\ pc' = "done"
          /\ UNCHANGED <<g, i, hist, attempts, sleeps>>
     ELSE /\ g' = g + 1
          /\ i' = FirstCount(i)
          /\ hist' = <<>>
          /\ attempts' = 0
          /\ sleeps' = 0
          /\ pc' = "sretry"
          /\ ret' = ret
  /\ UNCHANGED <<params, restore, partial, err, types, phase, tasks, errSlot, db, begun,
                 firstFail>>

\* ------------------------------------------------------------- direct calls
\* a caller invokes bulkDelete, bulkReplace or singleExec itself
DirectCall ==
  /\ entry \in DirectEntries
  /\ pc = "direct"
  /\ tasks' = <<NewTask(entry, "direct", dmls, 0)>>
  /\ pc' = "dwait"
  /\ UNCHANGED <<params, restore, partial, i, g, err, types, phase, errSlot, db, ret,
                 hist, attempts, sleeps, begun, firstFail>>

DirectReturn ==
  /\ entry \in DirectEntries
  /\ pc = "dwait"
  /\ tasks[1].pc = "done"
  /\ ret' = tasks[1].err
  /\ pc' = "done"
  /\ UNCHANGED <<params, restore, partial, i, g, err, types, phase, tasks, errSlot, db,
                 hist, attempts, sleeps, begun, firstFail>>

\* ------------------------------------------------------------------- merge
\* the merge on its own, over longer inputs: types, err := mergeByPrimaryKey(dmls)
MergeLen == MaxLen + 1

InitMerge ==
  /\ entry = "mergeByPrimaryKey"
  /\ dmls \in Changes(DMLTypes, Keys \cup {NoKey}, MergeLen)
  /\ safeMode = FALSE
  /\ retryNum = 1
  /\ batchSize = 1
  /\ pc = "merge"
  /\ i = 0
  /\ g = 1
  /\ err = Nil
  /\ types = NoTypes
  /\ phase = DeleteDMLType
  /\ tasks = <<>>
  /\ errSlot = Nil
  /\ db = InitTable
  /\ ret = Nil
  /\ hist = <<>>
  /\ attempts = 0
  /\ sleeps = 0
  /\ begun = FALSE
  /\ firstFail = 0
  /\ partial = FALSE
  /\ RestoreIdle

MergeCall ==
  /\ entry = "mergeByPrimaryKey"
  /\ pc = "merge"
  /\ types' = mergeByPrimaryKey(dmls).types
  /\ err' = mergeByPrimaryKey(dmls).err
  /\ pc' = "done"
  /\ UNCHANGED <<params, restore, partial, i, g, phase, tasks, errSlot, db, ret, hist, attempts,
                 sleeps, begun, firstFail>>

NextMerge == MergeCall

SpecMerge == InitMerge /\ [][NextMerge]_vars

\* ------------------------------------------------------------ specification
TaskStep ==
  \E t \in 1 .. Len(tasks) : TaskBegin(t) \/ TaskExec(t) \/ TaskCommit(t)

Next ==
  \/ RetryLoop
  \/ ExecTableBatch
  \/ SplitExecDML
  \/ Wait
  \/ SingleRetryLoop
  \/ SingleExecCall
  \/ SingleExecReturn
  \/ SingleNext
  \/ DirectCall
  \/ DirectReturn
  \/ TaskStep

Spec == Init /\ [][Next]_vars

\* ------------------------------------------------------------------ replay
\* bulkReplace over every table state, and called once more with the same
\* sub-batch after it committed (what a retry of the unit does to a sub-batch
\* that had already committed)
Tables == [Keys -> {NoRow, OldVal}]

InitReplay ==
  /\ entry = "bulkReplace"
  /\ dmls \in InputsOf(entry)
  /\ safeMode = FALSE
  /\ retryNum = 1
  /\ batchSize = 1
  /\ pc = StartPc(entry)
  /\ i = 0
  /\ g = 1
  /\ err = Nil
  /\ types = NoTypes
  /\ phase = InsertDMLType
  /\ tasks = <<>>
  /\ errSlot = Nil
  /\ db \in Tables
  /\ ret = Nil
  /\ hist = <<>>
  /\ attempts = 0
  /\ sleeps = 0
  /\ begun = FALSE
  /\ firstFail = 0
  /\ partial = FALSE
  /\ RestoreIdle

Replay ==
  /\ entry = "bulkReplace"
  /\ pc = "done"
  /\ attempts = 0
  /\ tasks[1].tx = "committed"
  /\ attempts' = attempts + 1
  /\ tasks' = <<NewTask(entry, "direct", dmls, attempts + 1)>>
  /\ pc' = "dwait"
  /\ UNCHANGED <<params, restore, partial, i, g, err, types, phase, errSlot, db, ret, hist,
                 sleeps, begun, firstFail>>

NextReplay ==
  \/ DirectCall
  \/ DirectReturn
  \/ TaskStep
  \/ Replay

SpecReplay == InitReplay /\ [][NextReplay]_vars

\* ----------------------------------------------------------------- restore
\* Restore.Start: replay of the binlog files of a directory
ExecOutcomes == {"ok", "ignorable", "fatal"}

\* line 72: an error of Execute ends the replay unless the classifier ignores it
ExecuteNeverStops(res) == FALSE
ExecuteStops(res) == res # "ok" /\ res # "ignorable"

Event(file, pos, res) == [file |-> file, pos |-> pos, res |-> res]

InitRestore ==
  /\ entry = "Start"
  /\ dmls = <<>>
  /\ safeMode = FALSE
  /\ retryNum = 1
  /\ batchSize = 1
  /\ pc = "idle"
  /\ i = 0
  /\ g = 1
  /\ err = Nil
  /\ types = NoTypes
  /\ phase = DeleteDMLType
  /\ tasks = <<>>
  /\ errSlot = Nil
  /\ db = InitTable
  /\ ret = Nil
  /\ hist = <<>>
  /\ attempts = 0
  /\ sleeps = 0
  /\ begun = FALSE
  /\ firstFail = 0
  /\ partial = FALSE
  /\ rpc = "names"
  /\ nfiles = 0
  /\ fidx = 0
  /\ pidx = 0
  /\ rlog = <<>>
  /\ rret = "nil"

executor == <<pc, i, g, err, types, phase, tasks, errSlot, db, ret, hist, attempts,
              sleeps, begun, firstFail, partial>>

\* Start returns an error after the event ev
ReturnError(ev) ==
  /\ rlog' = Append(rlog, ev)
  /\ rret' = "error"
  /\ rpc' = "done"

\* lines 40-47: the names are read (log.Fatalf ends the process when that
\* fails) and the replay starts at the index searchFileIndex gives
ReadBinlogNames ==
  /\ rpc = "names"
  /\ \/ /\ rpc' = "exited"
        /\ UNCHANGED <<nfiles, fidx>>
     \/ \E n \in 0 .. MaxLen : \E index \in 0 .. n :
          /\ nfiles' = n
          /\ fidx' = index + 1
          /\ rpc' = "open"
  /\ UNCHANGED <<params, executor, pidx, rlog, rret>>

\* lines 48-56 and 80: the next file is opened, or Start returns nil after the last
OpenFile ==
  /\ rpc = "open"
  /\ IF fidx > nfiles
     THEN /\ rpc' = "done"
          /\ rret' = "nil"
          /\ UNCHANGED <<pidx, rlog>>
     ELSE \/ /\ ReturnError(Event(fidx, 0, "openErr"))
             /\ UNCHANGED pidx
          \/ /\ rpc' = "read"
             /\ pidx' = 0
             /\ UNCHANGED <<rlog, rret>>
  /\ UNCHANGED <<params, executor, nfiles, fidx>>

\* lines 58-64: readBinlog gives the next payload, io.EOF or another error
ReadBinlog ==
  /\ rpc = "read"
  /\ \/ /\ pidx < MaxLen
        /\ pidx' = pidx + 1
        /\ rpc' = "translate"
        /\ UNCHANGED <<fidx, rlog, rret>>
     \/ /\ fidx' = fidx + 1
        /\ rpc' = "open"
        /\ UNCHANGED <<pidx, rlog, rret>>
     \/ /\ ReturnError(Event(fidx, pidx + 1, "decodeErr"))
        /\ UNCHANGED <<fidx, pidx>>
  /\ UNCHANGED <<params, executor, nfiles>>

\* lines 65-68
Translate ==
  /\ rpc = "translate"
  /\ \/ /\ rpc' = "execute"
        /\ UNCHANGED <<rlog, rret>>
     \/ ReturnError(Event(fidx, pidx, "translateErr"))
  /\ UNCHANGED <<params, executor, nfiles, fidx, pidx>>

\* lines 70-76
Execute ==
  /\ rpc = "execute"
  /\ \E res \in ExecOutcomes :
       IF ExecuteStops(res)
       THEN ReturnError(Event(fidx, pidx, res))
       ELSE /\ rlog' = Append(rlog, Event(fidx, pidx, res))
            /\ rpc' = "read"
            /\ rret' = rret
  /\ UNCHANGED <<params, executor, nfiles, fidx, pidx>>

NextRestore ==
  \/ ReadBinlogNames
  \/ OpenFile
  \/ ReadBinlog
  \/ Translate
  \/ Execute

SpecRestore == InitRestore /\ [][NextRestore]_vars

\* ------------------------------------------------------------------ claims
TaskIds == 1 .. Len(tasks)
IsWrite(t) == tasks[t].bucket \in {InsertDMLType, UpdateDMLType}
IsDelete(t) == tasks[t].bucket = DeleteDMLType
Last(s) == s[Len(s)]
MergeFails == \E n \in 1 .. Len(dmls) : dmls[n].key = NoKey

\* C1: in execTableBatch no Insert or Update sub-batch is begun before every
\* Delete sub-batch of the same attempt has ended, and none is begun at all
\* when a Delete sub-batch of that attempt failed.
C1_DeletesEndBeforeWrites ==
  entry = "execTableBatchRetry" =>
    \A w \in TaskIds : IsWrite(w) =>
      \A d \in TaskIds : (IsDelete(d) /\ tasks[d].att = tasks[w].att) =>
        /\ tasks[d].pc = "done"
        /\ tasks[d].tx # "open"
        /\ tasks[d].err = Nil

C1_Witness ==
  /\ entry = "execTableBatchRetry"
  /\ \E w \in TaskIds, d \in TaskIds :
       /\ IsWrite(w) /\ tasks[w].tx = "open"
       /\ IsDelete(d) /\ tasks[d].att = tasks[w].att /\ tasks[d].tx = "committed"

\* C2: a retry loop whose unit of work fails on attempts 1..k-1 and succeeds
\* on attempt k stops there: k attempts, k-1 sleeps, none before the first
\* attempt, no attempt after the first success, and success is returned.
C2_StopsAtFirstSuccess ==
  (entry \in RetryEntries /\ retryNum >= 1) =>
    /\ attempts = 0 => sleeps = 0
    /\ \A j \in 1 .. Len(hist) - 1 : ~hist[j]
    /\ (Len(hist) >= 1 /\ Last(hist)) =>
         /\ attempts = Len(hist)
         /\ attempts <= retryNum
         /\ sleeps = attempts - 1
         /\ err = Nil
         /\ pc \in {"done", "snext"}
         /\ pc = "done" => ret = Nil

C2_Witness ==
  /\ entry = "execTableBatchRetry"
  /\ retryNum >= 2
  /\ pc = "done"
  /\ ret = Nil
  /\ hist = <<FALSE, TRUE>>
  /\ sleeps = 1

\* C3: when all retryNum attempts fail, the retry loop makes exactly retryNum
\* attempts and returns the error of the last attempt.
C3_ReturnsLastError ==
  (entry \in RetryEntries /\ retryNum >= 1) =>
    /\ (pc = "done" /\ ret # Nil) =>
         /\ attempts = retryNum
         /\ Len(hist) = retryNum
         /\ \A j \in 1 .. Len(hist) : ~hist[j]
         /\ ret.att = retryNum
    /\ (Len(hist) = retryNum /\ \A j \in 1 .. Len(hist) : ~hist[j]) =>
         /\ attempts = retryNum
         /\ err.att = retryNum
         /\ pc \in {"retry", "sretry", "snext", "done"}
         /\ pc = "done" => ret = err

C3_Witness ==
  /\ entry = "singleExecRetry"
  /\ retryNum >= 2
  /\ pc = "done"
  /\ hist = <<FALSE, FALSE>>
  /\ ret # Nil
  /\ ret.att = retryNum

\* C4: bulkDelete, bulkReplace and singleExec never return with their
\* transaction still open.
C4_NoOpenTxOnReturn ==
  \A t \in TaskIds : tasks[t].pc = "done" => tasks[t].tx # "open"

C4_Witness ==
  \E t \in TaskIds, u \in TaskIds :
    /\ tasks[t].pc = "done" /\ tasks[t].tx = "rolledback" /\ tasks[t].err # Nil
    /\ tasks[u].pc = "done" /\ tasks[u].tx = "aborted" /\ tasks[u].err # Nil

\* C5: a batch is atomic.  A call that returns an error has committed nothing
\* of its batch; an exec failure rolls the transaction back in the same step
\* and no further statement is executed; the rows of the table change only
\* when a commit succeeds, and then by the whole batch.
C5_Step ==
  /\ \A t \in 1 .. Len(tasks') :
       (tasks'[t].pc = "done" /\ tasks'[t].err # Nil) => tasks'[t].tx # "committed"
  /\ Len(tasks') = Len(tasks) =>
       \A t \in TaskIds :
         /\ (tasks[t].pc = "exec" /\ tasks'[t].pc = "done") =>
              /\ tasks'[t].tx = "rolledback"
              /\ tasks'[t].n = tasks[t].n
              /\ tasks'[t].err # Nil
              /\ db' = db
         /\ (tasks[t].pc = "done" /\ tasks'[t].pc = "done") =>
              tasks'[t] = tasks[t]
  /\ db' # db =>
       \E t \in TaskIds :
         /\ tasks[t].pc = "commit"
         /\ tasks'[t].pc = "done"
         /\ tasks'[t].tx = "committed"
         /\ tasks'[t].err = Nil
         /\ tasks[t].n = Len(PlanOf(t))
         /\ db' = ApplyAll(db, PlanOf(t))

C5_BatchAtomic == [][C5_Step]_vars

C5_Witness ==
  \E t \in TaskIds :
    /\ tasks[t].fn = "singleExec"
    /\ tasks[t].pc = "done"
    /\ tasks[t].tx = "rolledback"
    /\ tasks[t].n >= 1
    /\ tasks[t].n < Len(PlanOf(t))
    /\ db = InitTable

\* C6: splitExecDML returns nil exactly when every sub-batch returned nil,
\* otherwise the error of the sub-batch that failed first; a failed
\* sub-batch stops no other one, each runs to its own commit or rollback.
TaskRun(t) == TaskBegin(t) \/ TaskExec(t) \/ TaskCommit(t)

C6_FirstErrorWins ==
  /\ (pc = "wait" /\ WaitReturns) =>
       /\ Trace(errSlot) = Nil <=> \A t \in Group : tasks[t].err = Nil
       /\ errSlot # Nil => (firstFail \in Group /\ errSlot = tasks[firstFail].err)
  /\ (entry \in SplitEntries /\ pc = "done") =>
       /\ ret = Nil <=> \A t \in TaskIds : tasks[t].err = Nil
       /\ ret # Nil => (firstFail \in TaskIds /\ ret = tasks[firstFail].err)
       /\ \A t \in TaskIds :
            /\ tasks[t].pc = "done"
            /\ tasks[t].err = Nil =>
                 (tasks[t].tx = "committed" \/ ReturnsEarly(tasks[t].fn, tasks[t].split))
  /\ pc = "wait" =>
       \A t \in Group : tasks[t].pc # "done" => ENABLED TaskRun(t)

C6_Witness ==
  /\ entry \in SplitEntries
  /\ pc = "done"
  /\ \E t \in TaskIds, u \in TaskIds :
       /\ t # u
       /\ firstFail = t
       /\ ret = tasks[t].err
       /\ tasks[u].err # Nil
       /\ tasks[u].err # ret

\* C7: the merge emits exactly one record per key that occurs in the input:
\* in the Delete bucket iff the last change of the key is a Delete, otherwise
\* in the Insert or Update bucket, and it carries the value of the last change.
Emitted(k) ==
  {<<tp, n>> \in DMLTypes \X (1 .. MergeLen) :
     n <= Len(types[tp]) /\ types[tp][n].key = k}
ChangesOf(k) == {n \in 1 .. Len(dmls) : dmls[n].key = k}
LastOf(k) == CHOOSE n \in ChangesOf(k) : \A m \in ChangesOf(k) : m <= n

C7_LastChangeWins ==
  (entry = "mergeByPrimaryKey" /\ pc = "done" /\ err = Nil) =>
    \A k \in Keys :
      IF ChangesOf(k) = {} THEN Emitted(k) = {}
      ELSE /\ Cardinality(Emitted(k)) = 1
           /\ \A e \in Emitted(k) :
                /\ e[1] = DeleteDMLType <=> dmls[LastOf(k)].Tp = DeleteDMLType
                /\ types[e[1]][e[2]].val = dmls[LastOf(k)].val
                /\ types[e[1]][e[2]].Tp = e[1]

C7_Witness ==
  /\ entry = "mergeByPrimaryKey"
  /\ pc = "done"
  /\ Len(dmls) = 3
  /\ dmls[1].Tp = InsertDMLType /\ dmls[1].key = 1
  /\ dmls[2].Tp = DeleteDMLType /\ dmls[2].key = 1
  /\ dmls[3].Tp = InsertDMLType /\ dmls[3].key = 2
  /\ types[DeleteDMLType] = <<dmls[2]>>
  /\ types[InsertDMLType] = <<dmls[3]>>
  /\ types[UpdateDMLType] = <<>>

\* C8: in a merge result every key occurs in at most one record of the three
\* buckets together, so the keys of the Delete bucket are disjoint from the
\* keys of the Insert and Update buckets.
KeysOf(tp) == {types[tp][n].key : n \in 1 .. Len(types[tp])}

C8_KeysDisjoint ==
  (entry = "mergeByPrimaryKey" /\ pc = "done") =>
    /\ \A k \in Keys : Cardinality(Emitted(k)) <= 1
    /\ KeysOf(DeleteDMLType) \cap (KeysOf(InsertDMLType) \cup KeysOf(UpdateDMLType)) = {}

C8_Witness ==
  /\ entry = "mergeByPrimaryKey"
  /\ pc = "done"
  /\ Len(dmls) = 3
  /\ dmls[1].key = dmls[3].key
  /\ dmls[1].Tp = DeleteDMLType
  /\ dmls[3].Tp = UpdateDMLType
  /\ KeysOf(DeleteDMLType) # {}
  /\ KeysOf(InsertDMLType) \cup KeysOf(UpdateDMLType) # {}

\* C9: a key-resolution error of the merge is not retried: one attempt, no
\* sleep, no transaction, and that error is returned.
C9_MergeErrorNotRetried ==
  (entry = "execTableBatchRetry" /\ retryNum >= 1 /\ MergeFails) =>
    /\ attempts <= 1
    /\ sleeps = 0
    /\ ~begun
    /\ pc = "done" => (ret.op = "merge" /\ ret.att = 1)

\* C10: for an empty record sequence no entry calls begin(), and each
\* returns success.
C10_EmptyOpensNoTx ==
  Len(dmls) = 0 =>
    /\ ~begun
    /\ pc = "done" => ret = Nil

\* C11: singleExec issues the statements of its records in the order of the
\* records, inside one transaction; per record they depend only on safeMode
\* and the kind: safe Update -> DELETE then REPLACE, safe Insert -> REPLACE,
\* anything else -> the natural statement of the kind.
C11_StmtsOf(d) ==
  IF safeMode /\ d.Tp = "Update"
  THEN <<[op |-> "DELETE", key |-> d.key, val |-> d.val],
         [op |-> "REPLACE", key |-> d.key, val |-> d.val]>>
  ELSE IF safeMode /\ d.Tp = "Insert"
  THEN <<[op |-> "REPLACE", key |-> d.key, val |-> d.val]>>
  ELSE <<[op |-> (IF d.Tp = "Insert" THEN "INSERT"
                  ELSE IF d.Tp = "Update" THEN "UPDATE" ELSE "DELETE"),
          key |-> d.key, val |-> d.val]>>

RECURSIVE C11_StmtsOfAll(_)
C11_StmtsOfAll(ds) ==
  IF Len(ds) = 0 THEN <<>> ELSE C11_StmtsOf(Head(ds)) \o C11_StmtsOfAll(Tail(ds))

Issued(t) == SubSeq(PlanOf(t), 1, tasks[t].n)

C11_StatementsInOrder ==
  \A t \in TaskIds : tasks[t].fn = "singleExec" =>
    LET want == C11_StmtsOfAll(tasks[t].split)
    IN  /\ tasks[t].n <= Len(want)
        /\ Issued(t) = SubSeq(want, 1, tasks[t].n)
        /\ tasks[t].tx = "committed" => tasks[t].n = Len(want)
        /\ tasks[t].tx = "rolledback" => tasks[t].n < Len(want)
        /\ tasks[t].tx = "none" => tasks[t].n = 0

C11_Witness ==
  \E t \in TaskIds :
    /\ tasks[t].fn = "singleExec"
    /\ safeMode
    /\ Len(tasks[t].split) = 2
    /\ tasks[t].split[1].Tp = UpdateDMLType
    /\ tasks[t].split[2].Tp = InsertDMLType
    /\ tasks[t].tx = "committed"
    /\ tasks[t].n = 3

\* C12: applying bulkReplace a second time to the same sub-batch leaves every
\* row as the first application left it, whatever the table held before and
\* whatever the sub-batch.
C12_Step == (entry = "bulkReplace" /\ attempts = 1) => db' = db
C13_Natural == ApplyAll(InitTable, Plan("singleExec", dmls, FALSE))
C13_UpdatePairLikeUpdate ==
  ( /\ entry = "singleExec"
    /\ safeMode
    /\ \A n \in 1 .. Len(dmls) : dmls[n].Tp = UpdateDMLType
    /\ Len(tasks) = 1 )
  => /\ \A n \in 1 .. Len(PlanOf(1)) : \A rows \in Tables : CanSucceed(rows, PlanOf(1)[n])
     /\ tasks[1].tx = "committed" =>
          \A k \in Keys :
            IF InitTable[k] # NoRow
            THEN db[k] = C13_Natural[k]
            ELSE \A n \in 1 .. Len(dmls) :
                   (dmls[n].key = k /\ \A m \in n + 1 .. Len(dmls) : dmls[m].key # k)
                   => (db[k] = dmls[n].val /\ C13_Natural[k] = NoRow)

C13_Witness ==
  /\ entry = "singleExec"
  /\ safeMode
  /\ Len(dmls) = MaxLen
  /\ \A n \in 1 .. Len(dmls) : dmls[n].Tp = UpdateDMLType
  /\ \E n \in 1 .. Len(dmls) : InitTable[dmls[n].key] = NoRow
  /\ \E n \in 1 .. Len(dmls) : InitTable[dmls[n].key] # NoRow
  /\ Len(tasks) = 1
  /\ tasks[1].tx = "committed"
  /\ db # C13_Natural

\* C14: Restore.Start executes the payloads in the order of the files and, in a
\* file, in the order they are read; after an ignorable error of Execute the
\* replay goes on; any other error of Execute, a decode error or a translate
\* error (or a file that cannot be opened) is the last thing that happens and
\* Start returns an error.
Stops(ev) == ev.res \in {"fatal", "decodeErr", "translateErr", "openErr"}
C14_ReplayInOrder ==
  entry = "Start" =>
    /\ \A n \in 1 .. Len(rlog) - 1 :
         /\ ~Stops(rlog[n])
         /\ \/ rlog[n].file = rlog[n + 1].file /\ rlog[n + 1].pos = rlog[n].pos + 1
            \/ rlog[n].file < rlog[n + 1].file /\ rlog[n + 1].pos <= 1
    /\ (Len(rlog) > 0 /\ Stops(Last(rlog))) => (rpc = "done" /\ rret = "error")
    /\ (rpc = "done" /\ rret = "error") => (Len(rlog) > 0 /\ Stops(Last(rlog)))
    /\ (rpc = "done" /\ rret = "nil") => fidx > nfiles
    /\ rpc # "done" => rret = "nil"

C14_Witness ==
  /\ entry = "Start"
  /\ rpc = "done"
  /\ rret = "error"
  /\ Len(rlog) > MaxLen
  /\ rlog[1].file < Last(rlog).file
  /\ Last(rlog).res = "fatal"
  /\ \E n \in 1 .. Len(rlog) - 1 : rlog[n].res = "ignorable" /\ rlog[n + 1].res = "ok"

\* C15: whenever the begin, an exec, the commit or a rollback of a call of
\* bulkDelete, bulkReplace or singleExec reported an error, the call returned
\* a non-nil error.
BeginFailed(t) == tasks[t].tx = "none" /\ ~ReturnsEarly(tasks[t].fn, tasks[t].split)
ExecFailed(t) == tasks[t].tx = "rolledback"
CommitFailed(t) == tasks[t].tx = "aborted"
RollbackFailed(t) == tasks[t].rb = "err"
C15_NoErrorSwallowed ==
  /\ \A t \in TaskIds :
       (tasks[t].pc = "done"
          /\ (BeginFailed(t) \/ ExecFailed(t) \/ CommitFailed(t) \/ RollbackFailed(t)))
       => tasks[t].err # Nil
  /\ (entry \in DirectEntries /\ pc = "done") => ret = tasks[1].err

C15_Witness ==
  /\ entry = "singleExec"
  /\ pc = "done"
  /\ RollbackFailed(1)
  /\ tasks[1].n > 0
  /\ ret # Nil

\* C16: during execTableBatch, whatever the interleaving, the sub-batches that
\* run at the same time are of the same kind and have pairwise disjoint key
\* sets, so no two transactions open at the same time touch the same key.
TaskKeys(t) == {tasks[t].split[n].key : n \in 1 .. Len(tasks[t].split)}
C16_ConcurrentKeysDisjoint ==
  entry = "execTableBatchRetry" =>
    \A t, u \in TaskIds :
      (t # u /\ tasks[t].pc # "done" /\ tasks[u].pc # "done") =>
        /\ tasks[t].fn = tasks[u].fn
        /\ tasks[t].bucket = tasks[u].bucket
        /\ tasks[t].att = tasks[u].att
        /\ TaskKeys(t) \cap TaskKeys(u) = {}

C16_Witness ==
  /\ entry = "execTableBatchRetry"
  /\ attempts > 1
  /\ \E t, u \in TaskIds :
       /\ t # u
       /\ tasks[t].tx = "open"
       /\ tasks[u].tx = "open"
       /\ tasks[t].n > 0
       /\ TaskKeys(t) # {}
       /\ TaskKeys(u) # {}

\* C17: retrying the whole unit is safe: when an attempt of execTableBatch
\* failed after some of its sub-batches had committed and a later attempt
\* succeeds, the table ends as one attempt in which everything succeeded
\* leaves it.
C17_Merged == mergeByPrimaryKey(dmls).types
C17_AllSuccess ==
  ApplyAll(InitTable,
           Plan("bulkDelete", C17_Merged[DeleteDMLType], FALSE)
             \o Plan("bulkReplace", C17_Merged[InsertDMLType], FALSE)
             \o Plan("bulkReplace", C17_Merged[UpdateDMLType], FALSE))
C17_RetrySafe ==
  ( /\ entry = "execTableBatchRetry"
    /\ pc = "done"
    /\ Len(hist) > 0
    /\ Last(hist) )
  => db = C17_AllSuccess

C17_Witness ==
  /\ entry = "execTableBatchRetry"
  /\ pc = "done"
  /\ ret = Nil
  /\ partial
  /\ hist = <<FALSE, TRUE>>
  /\ Len(dmls) = MaxLen
  /\ db = C17_AllSuccess
  /\ db # InitTable

\* C18: for every retryNum >= 0 and every non-empty input, a retry function
\* returns success only if the unit of work was attempted and its last attempt
\* succeeded; for singleExecRetry, only if every group was committed.
C18_AllGroupsApplied == ApplyAll(InitTable, Plan("singleExec", dmls, safeMode))
C18_SuccessMeansExecuted ==
  (entry \in RetryEntries /\ Len(dmls) > 0 /\ pc = "done" /\ ret = Nil) =>
    IF entry = "execTableBatchRetry"
    THEN /\ attempts >= 1
         /\ Len(hist) = attempts
         /\ Last(hist)
    ELSE /\ begun
         /\ g > Len(Groups)
         /\ db = C18_AllGroupsApplied

\* C19: when splitExecDML returns, with success or with an error, every task
\* it started has returned and none of their transactions is open: a task
\* runs only while its own splitExecDML is in errg.Wait(), so an attempt of
\* execTableBatch never runs beside a transaction of an earlier attempt.
C19_NoTaskOutlivesWait ==
  entry \in SplitEntries \cup {"execTableBatchRetry"} =>
    \A t \in TaskIds :
      (tasks[t].pc # "done" \/ tasks[t].tx = "open") =>
        /\ pc = "wait"
        /\ InGroup(t)

C19_Witness ==
  /\ entry = "execTableBatchRetry"
  /\ pc = "call"
  /\ i >= 1
  /\ ~Last(hist)
  /\ Len(tasks) >= MaxLen
  /\ \A t \in TaskIds : tasks[t].pc = "done" /\ tasks[t].tx # "open" /\ tasks[t].att = attempts
  /\ \E t \in TaskIds : tasks[t].tx = "committed"
  /\ \E t \in TaskIds : tasks[t].tx = "rolledback"

\* C20: singleExecRetry applies its groups one after another in input order:
\* the transaction of a group runs only when every earlier group has
\* committed, each group has its own retryNum attempts, and when a group has
\* used them all singleExecRetry returns its error with the earlier groups
\* committed and no later group begun.
C20_Before(n) ==
  ApplyAll(InitTable,
           Plan("singleExec", SubSeq(dmls, 1, Min((n - 1) * batchSize, Len(dmls))),
                safeMode))
C20_GroupsInOrder ==
  entry = "singleExecRetry" =>
    /\ Len(tasks) <= 1
    /\ attempts <= retryNum
    /\ \A t \in TaskIds :
         tasks[t].pc # "done" =>
           /\ pc = "swait"
           /\ g <= Len(Groups)
           /\ tasks[t].split = Groups[g]
           /\ db = C20_Before(g)
    /\ (pc \in {"swait", "snext"} /\ Len(tasks) > 0 /\ tasks[1].tx = "committed") =>
         /\ tasks[1].split = Groups[g]
         /\ db = C20_Before(g + 1)
    /\ (pc = "done" /\ ret # Nil) =>
         /\ g <= Len(Groups)
         /\ tasks[1].split = Groups[g]
         /\ ret = tasks[1].err
         /\ attempts = retryNum
         /\ \A n \in 1 .. Len(hist) : ~hist[n]
         /\ db = C20_Before(g)
    /\ (pc = "done" /\ ret = Nil) => g > Len(Groups)

C20_Witness ==
  /\ entry = "singleExecRetry"
  /\ pc = "done"
  /\ ret # Nil
  /\ g > 1
  /\ retryNum = MaxRetry
  /\ attempts = retryNum
  /\ g < Len(Groups) \/ Len(dmls) = MaxLen
  /\ db = C20_Before(g)
  /\ db # InitTable
====
